---- MODULE Spec2Model ----
(***************************************************************************)
(* Model of the audit-trail proof subsystem of aura-poc-a-core:            *)
(* audit/merkle.py (sha256, MerkleTree, EventTrustCertificate,             *)
(* verify_proof) and audit/verify.py (verify_etc).                         *)
(*                                                                         *)
(* Text is modelled by TLA+ strings and Python's str "+" by \o.  The hash  *)
(* is modelled as a collision-free function of its input text: the digest  *)
(* of s is the text "H(" s ")".  Two digests are equal exactly when their  *)
(* inputs are equal, and, like two 64-character hex digests, two digests   *)
(* written one after the other can be split again in only one way.         *)
(* Python's 0-based positions are kept; At(s, i) reads position i.         *)
(***************************************************************************)
EXTENDS Integers, Sequences, FiniteSets, TLC

VARIABLES built, leaves, tree, root, call, ret

\* held:  the EventTrustCertificate object a caller keeps (audit/merkle.py)
\* cert, cres:  an AuraEventCertificate object and the result of the last
\*              operation on it (compliance/certificate.py, renderer.py)
\* ks, calcs, kres:  the global KillSwitch, the ConsistencyCalculator objects
\*              constructed so far and the result of the last call on either
\*              (core/policy.py, core/consistency.py)
\* wk:  the worker threads that read one built tree
VARIABLES held, cert, cres, ks, calcs, kres, wk

vars == <<built, leaves, tree, root, call, ret, held, cert, cres, ks, calcs, kres, wk>>

(***************************************************************************)
(* Bounds of the model.                                                    *)
(***************************************************************************)
MaxLeaves == 5

\* Leaf texts handed to the constructor: two raw events and one text that
\* already is a digest (the integrated flow passes sha256(event_content)).
\* Indices handed to get_proof / create_etc: every valid one, every negative
\* one down to -MaxLeaves, and the two first ones past the end.
IndexInputs == (0 - MaxLeaves) .. (MaxLeaves + 1)

At(s, i) == s[i + 1]

(***************************************************************************)
(* audit/merkle.py: sha256                                                 *)
(***************************************************************************)
sha256(data) == "H(" \o data \o ")"

LeafInputs == {"a", "b", sha256("a")}

\* Python does not enforce the List[str] annotation of the constructor: a leaf
\* may be any object.  An object that is not a str is written as a text that
\* starts with b' (the notation of a bytes literal); every other text is a str.
\* The one handed in here is a digest as bytes.
NonStrInputs == {"b'" \o sha256("a") \o "'"}

\* isinstance(leaf, str)
isinstance_str(leaf) == ~(Len(leaf) >= 2 /\ SubSeq(leaf, 1, 2) = "b'")

\* the longest batch in which a leaf that is not a str is tried
MaxNonStrLeaves == 2

RECURSIVE SeqsUpTo(_, _)
SeqsUpTo(S, n) ==
  IF n = 0 THEN {<<>>}
  ELSE LET shorter == SeqsUpTo(S, n - 1)
       IN  shorter \cup {Append(s, x) : s \in {t \in shorter : Len(t) = n - 1}, x \in S}

BatchInputs ==
  SeqsUpTo(LeafInputs, MaxLeaves) \cup SeqsUpTo(LeafInputs \cup NonStrInputs, MaxNonStrLeaves)

(***************************************************************************)
(* MerkleTree._build_tree                                                  *)
(***************************************************************************)
\* A variant of next_level under the other odd-node policy: the unpaired last
\* node is promoted unchanged.
next_level_promote(current_level) ==
  [j \in 1 .. ((Len(current_level) + 1) \div 2) |->
     LET i == 2 * (j - 1)
     IN  IF i + 1 < Len(current_level)
         THEN sha256(At(current_level, i) \o At(current_level, i + 1))
         ELSE At(current_level, i)]

\* A variant of next_level that hashes the left child with itself and never
\* reads the right child.
next_level_leftonly(current_level) ==
  [j \in 1 .. ((Len(current_level) + 1) \div 2) |->
     LET left == At(current_level, 2 * (j - 1))
     IN  sha256(left \o left)]

\* one pass of the for loop: range(0, len(current_level), 2)
next_level(current_level) ==
  [j \in 1 .. ((Len(current_level) + 1) \div 2) |->
     LET i      == 2 * (j - 1)
         left   == At(current_level, i)
         right  == IF i + 1 < Len(current_level) THEN At(current_level, i + 1) ELSE left
         parent == sha256(left \o right)
     IN  parent]

\* A variant of build_loop that stops one level early ("> 2" for "> 1").
RECURSIVE build_loop_early(_, _)
build_loop_early(t, current_level) ==
  IF Len(current_level) > 2
  THEN build_loop_early(Append(t, next_level(current_level)), next_level(current_level))
  ELSE t

RECURSIVE build_loop(_, _)
build_loop(t, current_level) ==
  IF Len(current_level) > 1
  THEN build_loop(Append(t, next_level(current_level)), next_level(current_level))
  ELSE t

\* A variant of _build_tree whose loop tests its condition after the pass, so a
\* single leaf is hashed with itself once.
_build_tree_dowhile(lvs) ==
  IF lvs = <<>> THEN <<>>
  ELSE build_loop(<<lvs, next_level(lvs)>>, next_level(lvs))

_build_tree(lvs) ==
  IF lvs = <<>> THEN <<>> ELSE build_loop(<<lvs>>, lvs)


(***************************************************************************)
(* MerkleTree.__init__: the object's three fields, or the exception.       *)
(***************************************************************************)
\* line 76: a str leaf is hashed, any other leaf is kept as it is
init_leaves(lvs) ==
  [k \in 1 .. Len(lvs) |-> IF isinstance_str(lvs[k]) THEN sha256(lvs[k]) ELSE lvs[k]]

\* sha256(left + right) of line 95 on one pair: str + bytes and bytes + str
\* raise TypeError in "+", bytes + bytes is bytes and raises AttributeError in
\* sha256 (data.encode()); "" when the pair is hashed
pair_error(left, right) ==
  IF isinstance_str(left) /\ isinstance_str(right) THEN ""
  ELSE IF ~isinstance_str(left) /\ ~isinstance_str(right) THEN "AttributeError"
  ELSE "TypeError"

\* the first pair of the level, from index i on, whose hashing raises
RECURSIVE level_error(_, _)
level_error(current_level, i) ==
  IF i >= Len(current_level) THEN ""
  ELSE LET left  == At(current_level, i)
           right == IF i + 1 < Len(current_level) THEN At(current_level, i + 1) ELSE left
           e     == pair_error(left, right)
       IN  IF e # "" THEN e ELSE level_error(current_level, i + 2)

\* the exception _build_tree raises on these leaves, "" when it builds the
\* tree: only level 0 can hold a leaf that is not a str, and no pair is hashed
\* when there is a single leaf
build_error(lvs) == IF Len(lvs) > 1 THEN level_error(lvs, 0) ELSE ""

init_tree(lvs) == _build_tree(init_leaves(lvs))

\* A variant of init_root that takes the first node of the first level
\* (self.tree[0][0] for self.tree[-1][0]).
init_root_firstlevel(lvs) ==
  LET t == init_tree(lvs)
  IN  IF t # <<>> THEN At(t[1], 0) ELSE sha256("")

init_root(lvs) ==
  LET t == init_tree(lvs)
  IN  IF t # <<>> THEN At(t[Len(t)], 0) ELSE sha256("")

(***************************************************************************)
(* MerkleTree.get_proof                                                    *)
(***************************************************************************)
out_of_range(lvs, leaf_index) == leaf_index < 0 \/ leaf_index >= Len(lvs)

\* A variant of proof_step with the two direction tags exchanged.
proof_step_swapped(current_level, current_index) ==
  IF current_index % 2 = 0
  THEN LET sibling_index == current_index + 1
       IN  IF sibling_index < Len(current_level)
           THEN <<At(current_level, sibling_index), "left">>
           ELSE <<At(current_level, current_index), "left">>
  ELSE <<At(current_level, current_index - 1), "right">>

\* A variant of proof_step that tags the self-paired step "left".
proof_step_selfleft(current_level, current_index) ==
  IF current_index % 2 = 0
  THEN LET sibling_index == current_index + 1
       IN  IF sibling_index < Len(current_level)
           THEN <<At(current_level, sibling_index), "right">>
           ELSE <<At(current_level, current_index), "left">>
  ELSE <<At(current_level, current_index - 1), "left">>

\* the body of "for level in range(len(self.tree) - 1)" for one level
proof_step(current_level, current_index) ==
  IF current_index % 2 = 0
  THEN LET sibling_index == current_index + 1
       IN  IF sibling_index < Len(current_level)
           THEN <<At(current_level, sibling_index), "right">>
           ELSE <<At(current_level, current_index), "right">>
  ELSE LET sibling_index == current_index - 1
       IN  <<At(current_level, sibling_index), "left">>

\* A variant of proof_loop that also visits the root level
\* (range(len(self.tree)) for range(len(self.tree) - 1)).
RECURSIVE proof_loop_rootlevel(_, _, _, _)
proof_loop_rootlevel(t, level, current_index, proof) ==
  IF level < Len(t)
  THEN proof_loop_rootlevel(t, level + 1, current_index \div 2,
                            Append(proof, proof_step(At(t, level), current_index)))
  ELSE proof

RECURSIVE proof_loop(_, _, _, _)
proof_loop(t, level, current_index, proof) ==
  IF level < Len(t) - 1
  THEN proof_loop(t, level + 1, current_index \div 2,
                  Append(proof, proof_step(At(t, level), current_index)))
  ELSE proof

\* defined for an index in range; the caller tests out_of_range first
get_proof(t, leaf_index) == proof_loop(t, 0, leaf_index, <<>>)

(***************************************************************************)
(* verify_proof, and the same fold in EventTrustCertificate.verify         *)
(***************************************************************************)
\* A variant of fold_proof whose "right" branch hashes the running digest with
\* itself instead of with the sibling.
RECURSIVE fold_proof_selfright(_, _, _)
fold_proof_selfright(current, proof, k) ==
  IF k > Len(proof) THEN current
  ELSE IF proof[k][2] = "left"
       THEN fold_proof_selfright(sha256(proof[k][1] \o current), proof, k + 1)
       ELSE fold_proof_selfright(sha256(current \o current), proof, k + 1)

\* A variant of fold_proof that starts at the second step of the proof
\* ("for sibling, direction in proof[1:]").
RECURSIVE fold_proof_skipfirst(_, _, _)
fold_proof_skipfirst(current, proof, k) ==
  IF k > Len(proof) THEN current
  ELSE IF k = 1 THEN fold_proof_skipfirst(current, proof, 2)
  ELSE IF proof[k][2] = "left"
       THEN fold_proof_skipfirst(sha256(proof[k][1] \o current), proof, k + 1)
       ELSE fold_proof_skipfirst(sha256(current \o proof[k][1]), proof, k + 1)

RECURSIVE fold_proof(_, _, _)
fold_proof(current, proof, k) ==
  IF k > Len(proof) THEN current
  ELSE LET sibling   == proof[k][1]
           direction == proof[k][2]
       IN  IF direction = "left"
           THEN fold_proof(sha256(sibling \o current), proof, k + 1)
           ELSE fold_proof(sha256(current \o sibling), proof, k + 1)

\* the result of a fold that raises nothing
verify_proof(leaf, proof, expected_root) == fold_proof(leaf, proof, 1) = expected_root

\* The exception the fold raises, "" when it returns: a step whose running
\* value or sibling is not a str raises in "+" or in sha256, as pair_error
\* says; from the second step on the running value is a digest text.  The
\* same loop stands in verify_proof (lines 189-194) and in
\* EventTrustCertificate.verify (lines 53-58).
RECURSIVE fold_error(_, _, _)
fold_error(current, proof, k) ==
  IF k > Len(proof) THEN ""
  ELSE LET sibling   == proof[k][1]
           direction == proof[k][2]
           e         == pair_error(current, sibling)
       IN  IF e # "" THEN e
           ELSE IF direction = "left"
                THEN fold_error(sha256(sibling \o current), proof, k + 1)
                ELSE fold_error(sha256(current \o sibling), proof, k + 1)

\* A variant of etc_fold that ignores the direction tag and always puts the
\* sibling on the right.
RECURSIVE etc_fold_nodir(_, _, _)
etc_fold_nodir(current, proof, k) ==
  IF k > Len(proof) THEN current
  ELSE etc_fold_nodir(sha256(current \o proof[k][1]), proof, k + 1)

RECURSIVE etc_fold(_, _, _)
etc_fold(current, proof, k) ==
  IF k > Len(proof) THEN current
  ELSE LET sibling   == proof[k][1]
           direction == proof[k][2]
       IN  IF direction = "left"
           THEN etc_fold(sha256(sibling \o current), proof, k + 1)
           ELSE etc_fold(sha256(current \o sibling), proof, k + 1)

etc_verify(etc) == etc_fold(etc.event_hash, etc.merkle_proof, 1) = etc.merkle_root

\* audit/verify.py
verify_etc(etc) == etc_verify(etc)

(***************************************************************************)
(* MerkleTree.create_etc, for an index in range                            *)
(***************************************************************************)
create_etc(lvs, t, r, leaf_index, timestamp, batch_id) ==
  [event_hash   |-> At(lvs, leaf_index),
   merkle_root  |-> r,
   merkle_proof |-> get_proof(t, leaf_index),
   timestamp    |-> timestamp,
   batch_id     |-> batch_id]


(***************************************************************************)
(* Inputs of the calls.                                                    *)
(***************************************************************************)
DirectionTags == {"left", "right", "up"}

Timestamps == {"2026-01-01T00:00:00", "not-a-time"}

\* "None" stands for Python's None, the default of batch_id
BatchIds == {"None", "batch_001"}

ValidIndices == 0 .. (Len(leaves) - 1)

TreeNodes == UNION {{tree[l][j] : j \in 1 .. Len(tree[l])} : l \in 1 .. Len(tree)}

\* digests an outsider may put in the place of a sibling, a leaf or a root
Digests == TreeNodes \cup {sha256("z")}

SetStep(proof, k, step) == [proof EXCEPT ![k] = step]

\* the running hash after the first k steps of a proof
RECURSIVE PathNode(_, _, _)
PathNode(current, proof, k) ==
  IF k = 0 THEN current
  ELSE LET before == PathNode(current, proof, k - 1)
       IN  IF proof[k][2] = "left" THEN sha256(proof[k][1] \o before)
                                   ELSE sha256(before \o proof[k][1])

VerifyInputs ==
  UNION { LET P == get_proof(tree, i)
              x == At(leaves, i)
          IN  {[leaf |-> x, proof |-> P, root |-> root]}
              \cup {[leaf |-> x, proof |-> SetStep(P, k, <<d, P[k][2]>>), root |-> root]
                      : k \in 1 .. Len(P), d \in Digests}
              \cup {[leaf |-> x, proof |-> SetStep(P, k, <<P[k][1], tag>>), root |-> root]
                      : k \in 1 .. Len(P), tag \in DirectionTags}
              \cup {[leaf |-> PathNode(x, P, k), proof |-> SubSeq(P, k + 1, Len(P)), root |-> root]
                      : k \in 1 .. Len(P)}
              \cup {[leaf |-> d, proof |-> P, root |-> root] : d \in Digests \cup LeafInputs \cup NonStrInputs}
              \cup {[leaf |-> x, proof |-> P, root |-> d] : d \in Digests}
        : i \in ValidIndices }

\* certificates handed to verify: those create_etc returns, and certificates as
\* received from outside (the dataclass constructor takes any fields)
EtcInputs ==
  {create_etc(leaves, tree, root, i, ts, b) : i \in ValidIndices, ts \in Timestamps, b \in BatchIds}
  \cup
  {[event_hash |-> v.leaf, merkle_root |-> v.root, merkle_proof |-> v.proof,
    timestamp |-> "2026-01-01T00:00:00", batch_id |-> "None"] : v \in VerifyInputs}

NoEtc == [event_hash |-> "", merkle_root |-> "", merkle_proof |-> <<>>,
          timestamp |-> "", batch_id |-> "None"]

NoCall == [op |-> "", batch |-> <<>>, index |-> 0, leaf |-> "", proof |-> <<>>,
           root |-> "", etc |-> NoEtc]

\* kind: "" (nothing yet), "raise", "tree", "str", "proof", "etc", "bool"
NoRet == [kind |-> "", error |-> "", digest |-> "", proof |-> <<>>, etc |-> NoEtc, ok |-> FALSE]

Raise(e) == [NoRet EXCEPT !.kind = "raise", !.error = e]

(***************************************************************************)
(* The state machine: one tree object, and the call in progress with its   *)
(* result.  Calls are synchronous and made one after the other: a call is  *)
(* made when no result is pending (Idle), and Return hands the result to   *)
(* the caller, which ends the call.                                        *)
(***************************************************************************)
Idle == ret.kind \in {"", "tree"}

(***************************************************************************)
(* Initial values of the other objects.                                    *)
(***************************************************************************)
\* no AuraEventCertificate constructed yet; scores are in thousandths
NoCert == [agent_id |-> "", timestamp |-> "", ari_score |-> 0, drift |-> 0, status |-> "",
           merkle_root |-> "", leaf_hash |-> ""]

NoCres == [op |-> "", arg |-> "", kind |-> "", error |-> "", text |-> ""]

\* KillSwitch.__init__ ; "None" and the instant 0 stand for Python's None
KillSwitch_init == [active |-> FALSE, activated_at |-> 0, activated_by |-> "None",
                    reason |-> "None"]

NoPrevious == [activated_at |-> "None", activated_by |-> "None", reason |-> "None",
               deactivated_by |-> "None", deactivated_at |-> "None"]

\* a returned dict: the keys present and their values
NoDict == [keys |-> {}, status |-> "", active |-> FALSE, activated_at |-> "None",
           activated_by |-> "None", reason |-> "None", previous_state |-> NoPrevious,
           score |-> 0, structural |-> 0, semantic |-> 0, penalty |-> 0]

\* kind: "" (no call pending), "dict", "none"; evaluated: the event was scored
NoKres == [op |-> "", by |-> "", reason |-> "", calc |-> "", event |-> "", kind |-> "",
           evaluated |-> FALSE, dict |-> NoDict]

Workers == {"w1", "w2"}

\* a worker outside any call: pc is its position in the method it runs, the
\* other fields are the arguments and the locals of that call
WorkerIdle == [pc |-> "idle", op |-> "", index |-> 0, timestamp |-> "", batch_id |-> "",
               stop |-> 0, level |-> 0, current_index |-> 0, proof |-> <<>>,
               event_hash |-> "",
               ret |-> NoRet]

\* the objects each group of operations leaves alone
MerkleFrame == UNCHANGED <<held, cert, cres, ks, calcs, kres, wk>>

Init ==
  /\ built = FALSE
  /\ leaves = <<>>
  /\ tree = <<>>
  /\ root = ""
  /\ call = NoCall
  /\ ret = NoRet
  /\ held = NoEtc
  /\ cert = NoCert
  /\ cres = NoCres
  /\ ks = KillSwitch_init
  /\ calcs = {}
  /\ kres = NoKres
  /\ wk = [w \in Workers |-> WorkerIdle]

\* A variant of New without the emptiness test: an empty batch yields a tree
\* with no level and the default root of line 78.
New_noempty(batch) ==
  /\ ~built /\ Idle
  /\ call' = [NoCall EXCEPT !.op = "__init__", !.batch = batch]
  /\ IF build_error(init_leaves(batch)) # ""
     THEN /\ ret' = Raise(build_error(init_leaves(batch)))
          /\ UNCHANGED <<built, leaves, tree, root>>
     ELSE /\ built' = TRUE
          /\ leaves' = init_leaves(batch)
          /\ tree' = init_tree(batch)
          /\ root' = init_root(batch)
          /\ ret' = [NoRet EXCEPT !.kind = "tree"]

\* MerkleTree(batch)
New(batch) ==
  /\ ~built /\ Idle
  /\ call' = [NoCall EXCEPT !.op = "__init__", !.batch = batch]
  /\ IF batch = <<>>
     THEN /\ ret' = Raise("ValueError")
          /\ UNCHANGED <<built, leaves, tree, root>>
     ELSE IF build_error(init_leaves(batch)) # ""
     THEN /\ ret' = Raise(build_error(init_leaves(batch)))
          /\ UNCHANGED <<built, leaves, tree, root>>
     ELSE /\ built' = TRUE
          /\ leaves' = init_leaves(batch)
          /\ tree' = init_tree(batch)
          /\ root' = init_root(batch)
          /\ ret' = [NoRet EXCEPT !.kind = "tree"]

GetRoot ==
  /\ built /\ Idle
  /\ call' = [NoCall EXCEPT !.op = "get_root"]
  /\ ret' = [NoRet EXCEPT !.kind = "str", !.digest = root]
  /\ UNCHANGED <<built, leaves, tree, root>>

\* A variant of GetProof that reads a negative index as counting from the end,
\* as Python's own list indexing does.
GetProof_wrap(leaf_index) ==
  LET wrapped == IF leaf_index < 0 /\ leaf_index + Len(leaves) >= 0
                 THEN leaf_index + Len(leaves) ELSE leaf_index
  IN  /\ built /\ Idle
      /\ call' = [NoCall EXCEPT !.op = "get_proof", !.index = leaf_index]
      /\ ret' = IF out_of_range(leaves, wrapped)
                THEN Raise("IndexError")
                ELSE [NoRet EXCEPT !.kind = "proof", !.proof = get_proof(tree, wrapped)]
      /\ UNCHANGED <<built, leaves, tree, root>>

GetProof(leaf_index) ==
  /\ built /\ Idle
  /\ call' = [NoCall EXCEPT !.op = "get_proof", !.index = leaf_index]
  /\ ret' = IF out_of_range(leaves, leaf_index)
            THEN Raise("IndexError")
            ELSE [NoRet EXCEPT !.kind = "proof", !.proof = get_proof(tree, leaf_index)]
  /\ UNCHANGED <<built, leaves, tree, root>>

CreateEtc(leaf_index, timestamp, batch_id) ==
  /\ built /\ Idle
  /\ call' = [NoCall EXCEPT !.op = "create_etc", !.index = leaf_index,
                            !.etc = [NoEtc EXCEPT !.timestamp = timestamp, !.batch_id = batch_id]]
  /\ ret' = IF out_of_range(leaves, leaf_index)
            THEN Raise("IndexError")
            ELSE [NoRet EXCEPT !.kind = "etc",
                               !.etc = create_etc(leaves, tree, root, leaf_index, timestamp, batch_id)]
  /\ UNCHANGED <<built, leaves, tree, root>>

VerifyProof(leaf, proof, expected_root) ==
  /\ built /\ Idle
  /\ call' = [NoCall EXCEPT !.op = "verify_proof", !.leaf = leaf, !.proof = proof,
                            !.root = expected_root]
  /\ ret' = IF fold_error(leaf, proof, 1) # ""
            THEN Raise(fold_error(leaf, proof, 1))
            ELSE [NoRet EXCEPT !.kind = "bool", !.ok = verify_proof(leaf, proof, expected_root)]
  /\ UNCHANGED <<built, leaves, tree, root>>

\* etc.verify()
EtcVerify(etc) ==
  /\ built /\ Idle
  /\ call' = [NoCall EXCEPT !.op = "etc.verify", !.etc = etc]
  /\ ret' = IF fold_error(etc.event_hash, etc.merkle_proof, 1) # ""
            THEN Raise(fold_error(etc.event_hash, etc.merkle_proof, 1))
            ELSE [NoRet EXCEPT !.kind = "bool", !.ok = etc_verify(etc)]
  /\ UNCHANGED <<built, leaves, tree, root>>

\* audit/verify.py: verify_etc(etc)
VerifyEtc(etc) ==
  /\ built /\ Idle
  /\ call' = [NoCall EXCEPT !.op = "verify_etc", !.etc = etc]
  /\ ret' = IF fold_error(etc.event_hash, etc.merkle_proof, 1) # ""
            THEN Raise(fold_error(etc.event_hash, etc.merkle_proof, 1))
            ELSE [NoRet EXCEPT !.kind = "bool", !.ok = verify_etc(etc)]
  /\ UNCHANGED <<built, leaves, tree, root>>

\* the caller takes the result (or catches the exception)
Return ==
  /\ ~Idle
  /\ call' = NoCall
  /\ ret' = NoRet
  /\ UNCHANGED <<built, leaves, tree, root>>

\* The guards are repeated in front of the quantifiers so that the inputs,
\* which are derived from the built tree, are only enumerated when a call can
\* be made.
Next ==
  \/ (~built /\ Idle /\ \E batch \in BatchInputs : New(batch) /\ MerkleFrame)
  \/ (GetRoot /\ MerkleFrame)
  \/ (built /\ Idle /\ \E i \in IndexInputs : GetProof(i) /\ MerkleFrame)
  \/ (built /\ Idle /\ \E i \in IndexInputs, ts \in Timestamps, b \in BatchIds :
        CreateEtc(i, ts, b) /\ MerkleFrame)
  \/ (built /\ Idle /\ \E v \in VerifyInputs : VerifyProof(v.leaf, v.proof, v.root) /\ MerkleFrame)
  \/ (built /\ Idle /\ \E e \in EtcInputs : EtcVerify(e) /\ MerkleFrame)
  \/ (built /\ Idle /\ \E e \in EtcInputs : VerifyEtc(e) /\ MerkleFrame)
  \/ (Return /\ MerkleFrame)

Spec == Init /\ [][Next]_vars

TypeOK ==
  /\ built \in BOOLEAN
  /\ built => Len(leaves) >= 1 /\ Len(tree) >= 1


(***************************************************************************)
(* A certificate in the hands of a caller.  EventTrustCertificate is       *)
(* declared with a plain @dataclass (audit/merkle.py line 17): the         *)
(* generated class keeps Python's attribute assignment, so                 *)
(* "etc.<field> = value" stores the value.                                 *)
(***************************************************************************)
MaxEtcLeaves == 2

\* texts and proofs a holder may assign to a field
EtcTextFields == {"event_hash", "merkle_root", "timestamp", "batch_id"}

EtcTextValues == {sha256("z"), "not-a-time", "batch_001"}

EtcProofValues == {<<>>, << <<sha256("z"), "left">> >>}

EtcFrame == UNCHANGED <<cert, cres, ks, calcs, kres, wk>>

\* etc = tree.create_etc(...): the caller binds the returned certificate
Keep ==
  /\ ret.kind = "etc"
  /\ held = NoEtc
  /\ held' = ret.etc
  /\ call' = NoCall
  /\ ret' = NoRet
  /\ UNCHANGED <<built, leaves, tree, root>>

\* etc.<field> = value, for one of the four text fields
EtcSetText(field, value) ==
  /\ held # NoEtc /\ Idle
  /\ held' = [held EXCEPT ![field] = value]
  /\ call' = [NoCall EXCEPT !.op = "etc.setattr", !.leaf = field]
  /\ ret' = [NoRet EXCEPT !.kind = "none"]
  /\ UNCHANGED <<built, leaves, tree, root>>

\* etc.merkle_proof = value
EtcSetProof(value) ==
  /\ held # NoEtc /\ Idle
  /\ held' = [held EXCEPT !.merkle_proof = value]
  /\ call' = [NoCall EXCEPT !.op = "etc.setattr", !.leaf = "merkle_proof"]
  /\ ret' = [NoRet EXCEPT !.kind = "none"]
  /\ UNCHANGED <<built, leaves, tree, root>>

NextEtc ==
  \/ (~built /\ Idle /\ \E batch \in {b \in BatchInputs : Len(b) <= MaxEtcLeaves} :
        New(batch) /\ UNCHANGED held /\ EtcFrame)
  \/ (built /\ Idle /\ held = NoEtc /\ \E i \in IndexInputs, ts \in Timestamps, b \in BatchIds :
        CreateEtc(i, ts, b) /\ UNCHANGED held /\ EtcFrame)
  \/ (Keep /\ EtcFrame)
  \/ (\E f \in EtcTextFields, v \in EtcTextValues : EtcSetText(f, v) /\ EtcFrame)
  \/ (\E v \in EtcProofValues : EtcSetProof(v) /\ EtcFrame)
  \/ (held # NoEtc /\ EtcVerify(held) /\ UNCHANGED held /\ EtcFrame)
  \/ (held # NoEtc /\ VerifyEtc(held) /\ UNCHANGED held /\ EtcFrame)
  \/ (Return /\ UNCHANGED held /\ EtcFrame)

SpecEtc == Init /\ [][NextEtc]_vars

(***************************************************************************)
(* compliance/certificate.py: AuraEventCertificate, and                    *)
(* compliance/renderer.py: render_certificate.                             *)
(* The float fields are modelled in thousandths (850 stands for 0.85).     *)
(* The texts drawn below contain no character that JSON escapes.           *)
(***************************************************************************)
Digit(n) == ToString(n)

\* repr of a float with at most three decimals, as json.dumps writes it
json_float(m) ==
  LET whole == m \div 1000
      d1    == (m % 1000) \div 100
      d2    == (m % 100) \div 10
      d3    == m % 10
  IN  ToString(whole) \o "." \o Digit(d1)
        \o (IF d2 # 0 \/ d3 # 0 THEN Digit(d2) ELSE "")
        \o (IF d3 # 0 THEN Digit(d3) ELSE "")

\* f"{x:.3f}"
format_3f(m) ==
  ToString(m \div 1000) \o "." \o Digit((m % 1000) \div 100) \o Digit((m % 100) \div 10)
    \o Digit(m % 10)

json_string(s) == "\"" \o s \o "\""

\* A variant of to_dict that writes the score in the place of the drift.
to_dict_scoretwice(c) ==
  [schema_version |-> "1.0.0",
   agent_id       |-> c.agent_id,
   timestamp      |-> c.timestamp,
   ari            |-> [score |-> c.ari_score, drift |-> c.ari_score, status |-> c.status],
   audit          |-> [leaf_hash |-> c.leaf_hash, merkle_root |-> c.merkle_root]]

\* AuraEventCertificate.to_dict
to_dict(c) ==
  [schema_version |-> "1.0.0",
   agent_id       |-> c.agent_id,
   timestamp      |-> c.timestamp,
   ari            |-> [score |-> c.ari_score, drift |-> c.drift, status |-> c.status],
   audit          |-> [leaf_hash |-> c.leaf_hash, merkle_root |-> c.merkle_root]]

\* json.dumps(d, sort_keys=True): keys in lexicographic order at both depths
json_dumps_sorted(d) ==
  "{" \o json_string("agent_id") \o ": " \o json_string(d.agent_id) \o ", "
      \o json_string("ari") \o ": {"
          \o json_string("drift") \o ": " \o json_float(d.ari.drift) \o ", "
          \o json_string("score") \o ": " \o json_float(d.ari.score) \o ", "
          \o json_string("status") \o ": " \o json_string(d.ari.status) \o "}, "
      \o json_string("audit") \o ": {"
          \o json_string("leaf_hash") \o ": " \o json_string(d.audit.leaf_hash) \o ", "
          \o json_string("merkle_root") \o ": " \o json_string(d.audit.merkle_root) \o "}, "
      \o json_string("schema_version") \o ": " \o json_string(d.schema_version) \o ", "
      \o json_string("timestamp") \o ": " \o json_string(d.timestamp) \o "}"

\* json.dumps(d, indent=2): keys in insertion order
json_dumps_indent(d) ==
  "{\n  " \o json_string("schema_version") \o ": " \o json_string(d.schema_version) \o ",\n  "
      \o json_string("agent_id") \o ": " \o json_string(d.agent_id) \o ",\n  "
      \o json_string("timestamp") \o ": " \o json_string(d.timestamp) \o ",\n  "
      \o json_string("ari") \o ": {\n    "
          \o json_string("score") \o ": " \o json_float(d.ari.score) \o ",\n    "
          \o json_string("drift") \o ": " \o json_float(d.ari.drift) \o ",\n    "
          \o json_string("status") \o ": " \o json_string(d.ari.status) \o "\n  },\n  "
      \o json_string("audit") \o ": {\n    "
          \o json_string("leaf_hash") \o ": " \o json_string(d.audit.leaf_hash) \o ",\n    "
          \o json_string("merkle_root") \o ": " \o json_string(d.audit.merkle_root) \o "\n  }\n}"

\* AuraEventCertificate.fingerprint
fingerprint(c) == sha256(json_dumps_sorted(to_dict(c)))

\* hexdigest(): a digest is 64 hexadecimal characters, which the text
\* "H(...)" stands for
HexDigestLen == 64

\* the places of the character c in s, from place i on
places(s, c, i) == {k \in i .. Len(s) : SubSeq(s, k, k) = c}

\* the place of the ")" that closes the digest text whose "(" is at place i:
\* the first one up to which as many ")" as "(" are met
digest_end(s, i) ==
  LET E == {e \in places(s, ")", i) :
              Cardinality({k \in places(s, ")", i) : k <= e})
                = Cardinality({k \in places(s, "(", i) : k <= e})}
  IN  IF E = {} THEN Len(s) ELSE CHOOSE e \in E : \A f \in E : e <= f

\* the first n characters of s from place i on, counted as the code counts
\* them: a plain character is one, a digest is HexDigestLen of them, and the
\* first n < HexDigestLen characters of the digest H(x) are written H(x)[:n]
RECURSIVE slice(_, _, _)
slice(s, i, n) ==
  IF n <= 0 \/ i > Len(s) THEN ""
  ELSE IF i < Len(s) /\ SubSeq(s, i, i + 1) = "H("
       THEN LET e == digest_end(s, i + 1)
            IN  IF n >= HexDigestLen
                THEN SubSeq(s, i, e) \o slice(s, e + 1, n - HexDigestLen)
                ELSE SubSeq(s, i, e) \o "[:" \o ToString(n) \o "]"
  ELSE SubSeq(s, i, i) \o slice(s, i + 1, n - 1)

\* s[:32]: the first 32 characters, or all of a shorter text; of a digest,
\* the first half
Prefix32(s) == slice(s, 1, 32)

\* "=" * 60
Rule60 == "============================================================"

\* the lines of the 'text' format, given the score block it prints
text_lines(d, block, fp) ==
  Rule60 \o "\n" \o "AURA EVENT CERTIFICATE" \o "\n" \o Rule60 \o "\n"
    \o "Agent ID: " \o d.agent_id \o "\n"
    \o "Timestamp: " \o d.timestamp \o "\n"
    \o "\n"
    \o "PoCA Score:" \o "\n"
    \o "  Score: " \o format_3f(block.score) \o "\n"
    \o "  Drift: " \o format_3f(block.drift) \o "\n"
    \o "  Status: " \o block.status \o "\n"
    \o "\n"
    \o "Audit Trail:" \o "\n"
    \o "  Leaf Hash: " \o Prefix32(d.audit.leaf_hash) \o "..." \o "\n"
    \o "  Merkle Root: " \o Prefix32(d.audit.merkle_root) \o "..." \o "\n"
    \o "\n"
    \o "Certificate Fingerprint: " \o Prefix32(fp) \o "..." \o "\n"
    \o Rule60

\* render_certificate(cert, format): the result record
render_certificate(c, format) ==
  LET d == to_dict(c)
  IN  IF format = "dict"
      THEN [NoCres EXCEPT !.kind = "dict"]
      ELSE IF format = "json"
      THEN [NoCres EXCEPT !.kind = "str", !.text = json_dumps_indent(d)]
      ELSE IF format = "text"
      THEN IF "poca" \in DOMAIN d
           THEN [NoCres EXCEPT !.kind = "str", !.text = text_lines(d, d["poca"], fingerprint(c))]
           ELSE [NoCres EXCEPT !.kind = "raise", !.error = "KeyError"]
      ELSE [NoCres EXCEPT !.kind = "raise", !.error = "ValueError"]

(***************************************************************************)
(* Inputs and operations on one AuraEventCertificate.                      *)
(***************************************************************************)
AgentIds == {"agent_001", "agent_002"}

\* thousandths
Scores == {0, 850, 1000}

Drifts == {0, 50}

Statuses == {"COMPLIANT", "DRIFT"}

CertDigests == {sha256("a"), sha256("b")}

CertInputs ==
  [agent_id : AgentIds, timestamp : Timestamps, ari_score : Scores, drift : Drifts,
   status : Statuses, merkle_root : CertDigests, leaf_hash : CertDigests]

CertFields == {"agent_id", "timestamp", "ari_score", "drift", "status", "merkle_root",
               "leaf_hash"}

Formats == {"json", "text", "dict", "pdf"}

CertIdle == cres.kind = ""

CertFrame == UNCHANGED <<built, leaves, tree, root, call, ret, held, ks, calcs, kres, wk>>

\* AuraEventCertificate(...): the generated __init__ stores the seven fields
CertNew(c) ==
  /\ cert = NoCert /\ CertIdle
  /\ cert' = c
  /\ cres' = [NoCres EXCEPT !.op = "__init__", !.kind = "cert"]

\* cert.<field> = value on a frozen dataclass
CertSetAttr(field, value) ==
  /\ cert # NoCert /\ CertIdle
  /\ cres' = [NoCres EXCEPT !.op = "setattr", !.arg = field, !.kind = "raise",
                            !.error = "FrozenInstanceError"]
  /\ UNCHANGED cert

CertFingerprint ==
  /\ cert # NoCert /\ CertIdle
  /\ cres' = [NoCres EXCEPT !.op = "fingerprint", !.kind = "str", !.text = fingerprint(cert)]
  /\ UNCHANGED cert

RenderCertificate(format) ==
  /\ cert # NoCert /\ CertIdle
  /\ cres' = [render_certificate(cert, format) EXCEPT !.op = "render", !.arg = format]
  /\ UNCHANGED cert

CertReturn ==
  /\ ~CertIdle
  /\ cres' = NoCres
  /\ UNCHANGED cert

NextCert ==
  \/ (\E c \in CertInputs : CertNew(c) /\ CertFrame)
  \/ (\E f \in CertFields, v \in Statuses : CertSetAttr(f, v) /\ CertFrame)
  \/ (CertFingerprint /\ CertFrame)
  \/ (\E f \in Formats : RenderCertificate(f) /\ CertFrame)
  \/ (CertReturn /\ CertFrame)

SpecCert == Init /\ [][NextCert]_vars

(***************************************************************************)
(* core/policy.py: KillSwitch and the global instance, and                 *)
(* core/consistency.py: ConsistencyCalculator.                             *)
(* Instants are 1 .. MaxInstant (0 is None); floats are in thousandths.    *)
(***************************************************************************)
MaxInstant == 2

Instants == 1 .. MaxInstant

Operators == {"operator_001", "operator_002"}

Reasons == {"drill", "incident"}

\* datetime.isoformat(), None when there is no instant
isoformat(t) == IF t = 0 THEN "None" ELSE "2026-01-17T14:00:0" \o ToString(t)

\* the text of the "At:" part of the exception
at_text(t) == IF t # 0 THEN isoformat(t) ELSE "unknown"

halt_message(k) ==
  "System halted by kill-switch. " \o "Activated by: " \o k.activated_by \o ", "
    \o "Reason: " \o k.reason \o ", " \o "At: " \o at_text(k.activated_at)

\* A variant of assert_not_halted that reads the recorded operator instead of
\* the flag.
assert_not_halted_by_operator(k) ==
  IF k.activated_by # "None"
  THEN [raised |-> TRUE, message |-> halt_message(k)]
  ELSE [raised |-> FALSE, message |-> ""]

\* KillSwitch.assert_not_halted: the SystemHaltException, if raised
assert_not_halted(k) ==
  IF k.active
  THEN [raised |-> TRUE, message |-> halt_message(k)]
  ELSE [raised |-> FALSE, message |-> ""]

\* ---- ConsistencyCalculator ----
\* the calculators that can be constructed: constitution vector and rule names
CalcConfigs ==
  [calc_1 |-> [constitution |-> <<1, 0>>, rules |-> {}],
   calc_2 |-> [constitution |-> <<3, 4>>, rules |-> {"no_harmful_content", "raises"}]]

CalcIds == DOMAIN CalcConfigs

\* events: the keys of the dict, the embedding and the content
EventInputs ==
  [event_1 |-> [keys |-> {"timestamp", "embedding", "content"}, embedding |-> <<3, 4>>,
                content |-> "help"],
   event_2 |-> [keys |-> {"timestamp", "embedding", "content"}, embedding |-> <<1, 0>>,
                content |-> "attack"],
   event_3 |-> [keys |-> {"timestamp", "content"}, embedding |-> <<0, 0>>,
                content |-> "help"],
   event_4 |-> [keys |-> {"timestamp", "embedding", "content"}, embedding |-> <<0, 0>>,
                content |-> "help"]]

EventIds == DOMAIN EventInputs

\* PolicyRule.is_violated: the check function's answer, True if it raises
is_violated(rule, event) ==
  CASE rule = "no_harmful_content" -> event.content = "attack"
    [] rule = "raises" -> TRUE
    [] OTHER -> FALSE

\* _validate_structure, in thousandths
_validate_structure(event) ==
  IF {"timestamp", "embedding", "content"} \subseteq event.keys THEN 1000 ELSE 0

Dot(a, b) == a[1] * b[1] + a[2] * b[2]

\* math.sqrt, exact on the perfect squares the inputs produce
Sqrt(n) == CHOOSE r \in 0 .. n : r * r = n

\* _semantic_alignment, in thousandths
_semantic_alignment(event_vec, constitution) ==
  LET dot    == Dot(event_vec, constitution)
      norm_a == Sqrt(Dot(event_vec, event_vec))
      norm_b == Sqrt(Dot(constitution, constitution))
  IN  IF norm_a = 0 \/ norm_b = 0 THEN 0 ELSE (dot * 1000) \div (norm_a * norm_b)

\* _policy_penalty, in thousandths
_policy_penalty(rules, event) == Cardinality({r \in rules : is_violated(r, event)}) * 100

Max(a, b) == IF a >= b THEN a ELSE b

Min(a, b) == IF a <= b THEN a ELSE b

\* _fail(reason)
_fail(reason) ==
  [NoDict EXCEPT !.keys = {"score", "reason", "status"}, !.score = 0, !.reason = reason,
                 !.status = "FAIL"]

\* calculate after the kill-switch test: lines 42-62
evaluate(config, event) ==
  LET structural == _validate_structure(event)
  IN  IF structural = 0 THEN _fail("Invalid structure")
      ELSE LET semantic == _semantic_alignment(event.embedding, config.constitution)
               penalty  == _policy_penalty(config.rules, event)
               score    == (300 * structural + 700 * semantic) \div 1000 - penalty
           IN  [NoDict EXCEPT !.keys = {"score", "structural", "semantic", "penalty"},
                              !.score = Max(0, Min(1000, score)),
                              !.structural = structural,
                              !.semantic = semantic,
                              !.penalty = penalty]

\* ConsistencyCalculator.calculate, the kill switch being the global instance
calculate(config, event, k) ==
  LET halt == assert_not_halted(k)
  IN  IF halt.raised
      THEN _fail("System halted: " \o halt.message)
      ELSE evaluate(config, event)

KIdle == kres.kind = ""

KillFrame == UNCHANGED <<built, leaves, tree, root, call, ret, held, cert, cres, wk>>

\* A variant of Activate without the already-active test: the last caller wins.
Activate_lastwins(activated_by, reason, now) ==
  /\ KIdle
  /\ ks' = [active |-> TRUE, activated_at |-> now, activated_by |-> activated_by,
            reason |-> reason]
  /\ kres' = [NoKres EXCEPT !.op = "activate", !.by = activated_by, !.reason = reason,
                !.kind = "dict",
                !.dict = [NoDict EXCEPT !.keys = {"status", "activated_at", "activated_by", "reason"},
                                        !.status = "activated",
                                        !.activated_at = isoformat(now),
                                        !.activated_by = activated_by,
                                        !.reason = reason]]
  /\ UNCHANGED calcs

\* KillSwitch.activate; now is datetime.utcnow()
Activate(activated_by, reason, now) ==
  /\ KIdle
  /\ IF ks.active
     THEN /\ kres' = [NoKres EXCEPT !.op = "activate", !.by = activated_by, !.reason = reason,
                        !.kind = "dict",
                        !.dict = [NoDict EXCEPT !.keys = {"status", "activated_at", "activated_by"},
                                                !.status = "already_active",
                                                !.activated_at = isoformat(ks.activated_at),
                                                !.activated_by = ks.activated_by]]
          /\ UNCHANGED ks
     ELSE /\ ks' = [active |-> TRUE, activated_at |-> now, activated_by |-> activated_by,
                    reason |-> reason]
          /\ kres' = [NoKres EXCEPT !.op = "activate", !.by = activated_by, !.reason = reason,
                        !.kind = "dict",
                        !.dict = [NoDict EXCEPT !.keys = {"status", "activated_at", "activated_by", "reason"},
                                                !.status = "activated",
                                                !.activated_at = isoformat(now),
                                                !.activated_by = activated_by,
                                                !.reason = reason]]
  /\ UNCHANGED calcs

\* KillSwitch.deactivate; now is datetime.utcnow()
Deactivate(deactivated_by, now) ==
  /\ KIdle
  /\ IF ~ks.active
     THEN /\ kres' = [NoKres EXCEPT !.op = "deactivate", !.by = deactivated_by, !.kind = "dict",
                        !.dict = [NoDict EXCEPT !.keys = {"status"}, !.status = "not_active"]]
          /\ UNCHANGED ks
     ELSE /\ ks' = [ks EXCEPT !.active = FALSE]
          /\ kres' = [NoKres EXCEPT !.op = "deactivate", !.by = deactivated_by, !.kind = "dict",
                        !.dict = [NoDict EXCEPT
                           !.keys = {"status", "previous_state"},
                           !.status = "deactivated",
                           !.previous_state = [activated_at   |-> isoformat(ks.activated_at),
                                               activated_by   |-> ks.activated_by,
                                               reason         |-> ks.reason,
                                               deactivated_by |-> deactivated_by,
                                               deactivated_at |-> isoformat(now)]]]
  /\ UNCHANGED calcs

\* KillSwitch.get_state
GetState ==
  /\ KIdle
  /\ kres' = [NoKres EXCEPT !.op = "get_state", !.kind = "dict",
                !.dict = [NoDict EXCEPT !.keys = {"active", "activated_at", "activated_by", "reason"},
                                        !.active = ks.active,
                                        !.activated_at = isoformat(ks.activated_at),
                                        !.activated_by = ks.activated_by,
                                        !.reason = ks.reason]]
  /\ UNCHANGED <<ks, calcs>>

\* ConsistencyCalculator(constitution, rules): keeps a reference to the global switch
NewCalculator(c) ==
  /\ KIdle
  /\ c \notin calcs
  /\ calcs' = calcs \cup {c}
  /\ kres' = [NoKres EXCEPT !.op = "ConsistencyCalculator", !.calc = c, !.kind = "none"]
  /\ UNCHANGED ks

\* calc.calculate(event)
Calculate(c, e) ==
  /\ KIdle
  /\ c \in calcs
  /\ kres' = [NoKres EXCEPT !.op = "calculate", !.calc = c, !.event = e, !.kind = "dict",
                !.evaluated = ~assert_not_halted(ks).raised,
                !.dict = calculate(CalcConfigs[c], EventInputs[e], ks)]
  /\ UNCHANGED <<ks, calcs>>

KReturn ==
  /\ ~KIdle
  /\ kres' = NoKres
  /\ UNCHANGED <<ks, calcs>>

NextKill ==
  \/ (\E by \in Operators, r \in Reasons, now \in Instants : Activate(by, r, now) /\ KillFrame)
  \/ (\E by \in Operators, now \in Instants : Deactivate(by, now) /\ KillFrame)
  \/ (GetState /\ KillFrame)
  \/ (\E c \in CalcIds : NewCalculator(c) /\ KillFrame)
  \/ (\E c \in CalcIds, e \in EventIds : Calculate(c, e) /\ KillFrame)
  \/ (KReturn /\ KillFrame)

SpecKill == Init /\ [][NextKill]_vars

(***************************************************************************)
(* Worker threads reading one built tree (spec section 5).  Each worker    *)
(* runs get_root, get_proof or create_etc of audit/merkle.py lines 103-174 *)
(* one statement group at a time: every step reads the attributes of the   *)
(* shared tree as they are at that moment, and the steps of the workers    *)
(* interleave freely.  The locals of a call live in the worker's record.   *)
(***************************************************************************)
MaxWorkerLeaves == 3

WorkerBatches == {b \in SeqsUpTo({"a", "b"}, MaxWorkerLeaves) : b # <<>>}

WorkerIndices == (0 - 1) .. MaxWorkerLeaves

WorkerOps == {"get_root", "get_proof", "create_etc"}

WorkerFrame == UNCHANGED <<call, ret, held, cert, cres, ks, calcs, kres>>

\* the worker, free or done with its previous call, enters the method with
\* its arguments
WStart(w, op, leaf_index, timestamp, batch_id) ==
  /\ built /\ wk[w].pc \in {"idle", "done"}
  /\ wk' = [wk EXCEPT ![w] = [WorkerIdle EXCEPT
               !.pc = IF op = "get_root" THEN "get_root" ELSE "check",
               !.op = op,
               !.index = IF op = "get_root" THEN 0 ELSE leaf_index,
               !.timestamp = IF op = "create_etc" THEN timestamp ELSE "",
               !.batch_id = IF op = "create_etc" THEN batch_id ELSE ""]]
  /\ UNCHANGED <<built, leaves, tree, root>>

\* get_root: return self.root
WGetRoot(w) ==
  /\ wk[w].pc = "get_root"
  /\ wk' = [wk EXCEPT ![w].pc = "done",
                      ![w].ret = [NoRet EXCEPT !.kind = "str", !.digest = root]]
  /\ UNCHANGED <<built, leaves, tree, root>>

\* get_proof lines 117-123: the range test against len(self.leaves), then the
\* initialisation of proof and current_index and the evaluation of
\* range(len(self.tree) - 1)
WCheck(w) ==
  /\ wk[w].pc = "check"
  /\ wk' = IF out_of_range(leaves, wk[w].index)
           THEN [wk EXCEPT ![w].pc = "done", ![w].ret = Raise("IndexError")]
           ELSE [wk EXCEPT ![w].pc = "loop", ![w].proof = <<>>,
                           ![w].current_index = wk[w].index, ![w].level = 0,
                           ![w].stop = Len(tree) - 1]
  /\ UNCHANGED <<built, leaves, tree, root>>

\* the exit of the loop of get_proof: "return proof", which ends a get_proof
\* call and hands the proof to line 165 of create_etc
loop_exit(r) ==
  IF r.op = "get_proof"
  THEN [r EXCEPT !.pc = "done", !.ret = [NoRet EXCEPT !.kind = "proof", !.proof = r.proof]]
  ELSE [r EXCEPT !.pc = "event_hash"]

\* one pass of the loop body, lines 124-144
loop_body(r) ==
  [r EXCEPT !.proof = Append(r.proof, proof_step(At(tree, r.level), r.current_index)),
            !.current_index = r.current_index \div 2,
            !.level = r.level + 1]

\* the self-paired case of lines 133-136: an even index without a right
\* neighbour
self_paired(r) == r.current_index % 2 = 0 /\ r.current_index + 1 >= Len(At(tree, r.level))

\* A variant of WLoop that, in the self-paired case, first appends the
\* duplicate to the level it reads (level 0 is the list self.leaves itself,
\* line 88), padding the shared tree in place.
WLoop_pad(w) ==
  /\ wk[w].pc = "loop"
  /\ IF wk[w].level < wk[w].stop
     THEN /\ wk' = [wk EXCEPT ![w] = loop_body(wk[w])]
          /\ IF self_paired(wk[w])
             THEN /\ tree' = [tree EXCEPT ![wk[w].level + 1] =
                                Append(@, At(@, wk[w].current_index))]
                  /\ leaves' = IF wk[w].level = 0
                               THEN Append(leaves, At(leaves, wk[w].current_index))
                               ELSE leaves
             ELSE UNCHANGED <<leaves, tree>>
     ELSE /\ wk' = [wk EXCEPT ![w] = loop_exit(wk[w])]
          /\ UNCHANGED <<leaves, tree>>
  /\ UNCHANGED <<built, root>>

\* one iteration of "for level in range(len(self.tree) - 1)", or its exit
WLoop(w) ==
  /\ wk[w].pc = "loop"
  /\ wk' = IF wk[w].level < wk[w].stop
           THEN [wk EXCEPT ![w] = loop_body(wk[w])]
           ELSE [wk EXCEPT ![w] = loop_exit(wk[w])]
  /\ UNCHANGED <<built, leaves, tree, root>>

\* create_etc line 166: event_hash = self.leaves[leaf_index]
WEventHash(w) ==
  /\ wk[w].pc = "event_hash"
  /\ wk' = [wk EXCEPT ![w].pc = "construct", ![w].event_hash = At(leaves, wk[w].index)]
  /\ UNCHANGED <<built, leaves, tree, root>>

\* create_etc lines 168-174: the certificate, with self.root read now
WConstruct(w) ==
  /\ wk[w].pc = "construct"
  /\ wk' = [wk EXCEPT ![w].pc = "done",
                      ![w].ret = [NoRet EXCEPT !.kind = "etc",
                                    !.etc = [event_hash   |-> wk[w].event_hash,
                                             merkle_root  |-> root,
                                             merkle_proof |-> wk[w].proof,
                                             timestamp    |-> wk[w].timestamp,
                                             batch_id     |-> wk[w].batch_id]]]
  /\ UNCHANGED <<built, leaves, tree, root>>

WorkerTimestamps == {"2026-01-01T00:00:00"}

WorkerBatchIds == {"batch_001"}

\* the tree is built once, by New, before the workers are started on it
NextWorkers ==
  \/ (~built /\ Idle /\ \E batch \in WorkerBatches : New(batch) /\ MerkleFrame)
  \/ (built /\ \E w \in Workers, op \in WorkerOps, i \in WorkerIndices,
                  ts \in WorkerTimestamps, b \in WorkerBatchIds :
        WStart(w, op, i, ts, b) /\ WorkerFrame)
  \/ (\E w \in Workers : WGetRoot(w) /\ WorkerFrame)
  \/ (\E w \in Workers : WCheck(w) /\ WorkerFrame)
  \/ (\E w \in Workers : WLoop(w) /\ WorkerFrame)
  \/ (\E w \in Workers : WEventHash(w) /\ WorkerFrame)
  \/ (\E w \in Workers : WConstruct(w) /\ WorkerFrame)

SpecWorkers == Init /\ [][NextWorkers]_vars

(***************************************************************************)
(* Trees built from every batch of up to MaxRootLeaves leaves and asked    *)
(* for their root: the specification under which roots of different        *)
(* batches are compared with each other.                                   *)
(***************************************************************************)
MaxRootLeaves == 4

RootBatches == SeqsUpTo(LeafInputs, MaxRootLeaves)

NextRoot ==
  \/ (~built /\ Idle /\ \E batch \in RootBatches : New(batch) /\ MerkleFrame)
  \/ (GetRoot /\ MerkleFrame)
  \/ (Return /\ MerkleFrame)

SpecRoot == Init /\ [][NextRoot]_vars

(***************************************************************************)
(* Helpers of the properties.                                              *)
(***************************************************************************)
RECURSIVE Pow2(_)
Pow2(k) == IF k = 0 THEN 1 ELSE 2 * Pow2(k - 1)

\* ceil(log2(n)) for n >= 1: the least k with 2^k >= n
RECURSIVE CeilLog2From(_, _)
CeilLog2From(n, k) == IF Pow2(k) >= n THEN k ELSE CeilLog2From(n, k + 1)

CeilLog2(n) == CeilLog2From(n, 0)

\* the call in progress verifies (leaf, proof, expected root) by any of the
\* three entry points
VerifyCall ==
  CASE call.op = "verify_proof" -> [leaf |-> call.leaf, proof |-> call.proof, root |-> call.root]
    [] call.op \in {"etc.verify", "verify_etc"} ->
         [leaf |-> call.etc.event_hash, proof |-> call.etc.merkle_proof,
          root |-> call.etc.merkle_root]

IsVerifyCall == call.op \in {"verify_proof", "etc.verify", "verify_etc"}

\* the constructor's inputs that already are digests: the digest text sha256
\* returns, and the digest as bytes
DigestInputs == {sha256("a")} \cup NonStrInputs

\* proof q is proof p with the sibling of exactly one step replaced by another
\* text, tags and all other steps kept
OneSiblingReplaced(p, q) ==
  /\ Len(q) = Len(p)
  /\ \E k \in 1 .. Len(p) :
       /\ q[k][1] # p[k][1]
       /\ q[k][2] = p[k][2]
       /\ \A j \in 1 .. Len(p) : j # k => q[j] = p[j]

(***************************************************************************)
(* C1  Round-trip proof validity: verify_proof(tree.leaves[i],             *)
(* tree.get_proof(i), tree.get_root()) returns true for every built tree   *)
(* and every valid index i, odd leaf counts included.                      *)
(***************************************************************************)
C1_RoundTrip ==
  (/\ call.op = "verify_proof"
   /\ \E i \in ValidIndices :
        /\ call.leaf = At(leaves, i)
        /\ call.proof = get_proof(tree, i)
        /\ call.root = root)
  => (ret.kind = "bool" /\ ret.ok = TRUE)

\* the last of three leaves, whose first step pairs the node with itself
C1_Witness ==
  /\ call.op = "verify_proof"
  /\ Len(leaves) = 3
  /\ call.leaf = At(leaves, 2)
  /\ call.proof = get_proof(tree, 2)
  /\ call.proof[1] = <<At(leaves, 2), "right">>
  /\ call.root = root
  /\ ret.ok = TRUE

(***************************************************************************)
(* C2  A proof with a direction tag that is neither "left" nor "right" is  *)
(* a verification failure: verify_proof and EventTrustCertificate.verify   *)
(* return false for it.                                                    *)
(***************************************************************************)
C2_UnknownTagRejected ==
  (/\ IsVerifyCall
   /\ \E k \in 1 .. Len(VerifyCall.proof) : VerifyCall.proof[k][2] \notin {"left", "right"})
  => (ret.kind = "bool" /\ ret.ok = FALSE)

(***************************************************************************)
(* C3  Tamper sensitivity: a proof produced by get_proof(i) in which the   *)
(* sibling digest of one step is replaced by a different digest makes      *)
(* verify_proof(tree.leaves[i], tampered, root) return false.              *)
(***************************************************************************)
C3_TamperSensitivity ==
  (/\ call.op = "verify_proof"
   /\ call.root = root
   /\ \E i \in ValidIndices :
        /\ call.leaf = At(leaves, i)
        /\ OneSiblingReplaced(get_proof(tree, i), call.proof))
  => (ret.kind = "bool" /\ ret.ok = FALSE)

\* the self-paired first step of the last of three leaves, its sibling replaced
C3_Witness ==
  /\ call.op = "verify_proof"
  /\ call.root = root
  /\ Len(leaves) = 3
  /\ call.leaf = At(leaves, 2)
  /\ OneSiblingReplaced(get_proof(tree, 2), call.proof)
  /\ call.proof[1][1] # At(leaves, 2)
  /\ ret.kind = "bool" /\ ret.ok = FALSE

(***************************************************************************)
(* C4  Single-leaf root identity: for a one-element batch [x] the tree has *)
(* exactly one level and get_root() is H(x), not hashed again.  H takes a  *)
(* text: x ranges over the str leaves.                                     *)
(***************************************************************************)
C4_SingleLeafRoot ==
  /\ (call.op = "__init__" /\ Len(call.batch) = 1 /\ isinstance_str(call.batch[1]))
       => (/\ ret.kind = "tree"
           /\ Len(tree) = 1
           /\ root = sha256(call.batch[1]))
  /\ (call.op = "get_root" /\ Len(leaves) = 1)
       => (/\ ret.kind = "str"
           /\ Len(tree) = 1
           /\ ret.digest = At(leaves, 0))

C4_Witness ==
  /\ call.op = "get_root"
  /\ Len(leaves) = 1
  /\ ret.digest = sha256("b")

(***************************************************************************)
(* C5  Level 0 of the built tree is exactly the sequence of leaf digests   *)
(* given to the builder, each digest unchanged; built from [d] for a       *)
(* digest d, leaves[0] = d, get_root() = d and                             *)
(* verify_proof(d, get_proof(0), get_root()) holds.                        *)
(***************************************************************************)
C5_LevelZeroIsInput ==
  (/\ call.op = "__init__"
   /\ ret.kind = "tree"
   /\ \A k \in 1 .. Len(call.batch) : call.batch[k] \in DigestInputs)
  => (/\ leaves = call.batch
      /\ Len(call.batch) = 1 =>
           (/\ At(leaves, 0) = call.batch[1]
            /\ root = call.batch[1]
            /\ verify_proof(call.batch[1], get_proof(tree, 0), root)))

(***************************************************************************)
(* C6  Odd-node duplication policy: node j of level k+1 is                 *)
(* H(level_k[2j] ++ level_k[2j+1]) when index 2j+1 exists and              *)
(* H(level_k[2j] ++ level_k[2j]) when it does not, left before right.      *)
(***************************************************************************)
C6_OddNodeDuplication ==
  built =>
    \A k \in 0 .. (Len(tree) - 2) :
      \A j \in 0 .. (Len(At(tree, k + 1)) - 1) :
        LET level_k == At(tree, k)
        IN  /\ 2 * j < Len(level_k)
            /\ At(At(tree, k + 1), j) =
                 IF 2 * j + 1 < Len(level_k)
                 THEN sha256(At(level_k, 2 * j) \o At(level_k, 2 * j + 1))
                 ELSE sha256(At(level_k, 2 * j) \o At(level_k, 2 * j))

\* three leaves: level 1 = [H(H(a)+H(b)), H(H(b)+H(b))] for the batch a, b, b
C6_Witness ==
  /\ built
  /\ call.op = "__init__"
  /\ call.batch = <<"a", "b", "b">>
  /\ At(tree, 1) = << sha256(sha256("a") \o sha256("b")), sha256(sha256("b") \o sha256("b")) >>
  /\ root = sha256(At(At(tree, 1), 0) \o At(At(tree, 1), 1))

(***************************************************************************)
(* C7  Proof step rule: step k of get_proof(i) is built from the node      *)
(* index idx = i div 2^k on level k: (level[idx-1], "left") if idx is odd, *)
(* (level[idx+1], "right") if idx is even and idx+1 exists, and            *)
(* (level[idx], "right") if idx is even and idx+1 does not exist; one step *)
(* per non-root level.                                                     *)
(***************************************************************************)
C7_ProofStepRule ==
  (call.op = "get_proof" /\ ret.kind = "proof")
  => (/\ Len(ret.proof) = Len(tree) - 1
      /\ \A k \in 0 .. (Len(ret.proof) - 1) :
           LET idx   == call.index \div Pow2(k)
               level == At(tree, k)
           IN  At(ret.proof, k) =
                 IF idx % 2 = 1 THEN <<At(level, idx - 1), "left">>
                 ELSE IF idx + 1 < Len(level) THEN <<At(level, idx + 1), "right">>
                 ELSE <<At(level, idx), "right">>)

\* three leaves a, b, b: the proof for index 2 is [(H(b), "right"), (H(H(a)+H(b)), "left")]
C7_Witness ==
  /\ call.op = "get_proof"
  /\ call.index = 2
  /\ leaves = <<sha256("a"), sha256("b"), sha256("b")>>
  /\ ret.proof = << <<sha256("b"), "right">>,
                    <<sha256(sha256("a") \o sha256("b")), "left">> >>

(***************************************************************************)
(* C8  Proof length bound: len(get_proof(i)) = ceil(log2(n)) for a tree of *)
(* n >= 1 leaves and every valid i; the proof is empty for n = 1.          *)
(***************************************************************************)
C8_ProofLength ==
  (call.op = "get_proof" /\ ret.kind = "proof")
  => (/\ Len(ret.proof) = CeilLog2(Len(leaves))
      /\ Len(leaves) = 1 => ret.proof = <<>>)

\* five leaves: three steps
C8_Witness ==
  /\ call.op = "get_proof"
  /\ ret.kind = "proof"
  /\ Len(leaves) = 5
  /\ call.index = 4
  /\ Len(ret.proof) = 3

(***************************************************************************)
(* C9  Level-size invariant: level k+1 has ceil(len(level_k)/2) nodes, the *)
(* last level has exactly one node, and get_root() is that node.           *)
(***************************************************************************)
C9_LevelSizes ==
  built =>
    /\ Len(At(tree, 0)) = Len(leaves)
    /\ \A k \in 0 .. (Len(tree) - 2) :
         Len(At(tree, k + 1)) = (Len(At(tree, k)) + 1) \div 2
    /\ Len(At(tree, Len(tree) - 1)) = 1
    /\ root = At(At(tree, Len(tree) - 1), 0)
    /\ (call.op = "get_root" => ret.digest = At(At(tree, Len(tree) - 1), 0))

\* five leaves: levels of 5, 3, 2 and 1 nodes
C9_Witness ==
  /\ built
  /\ call.op = "get_root"
  /\ Len(tree) = 4
  /\ Len(At(tree, 0)) = 5 /\ Len(At(tree, 1)) = 3
  /\ Len(At(tree, 2)) = 2 /\ Len(At(tree, 3)) = 1
  /\ ret.digest = root

(***************************************************************************)
(* C10  Out-of-range rejection: get_proof(i) and create_etc(i, ...) raise  *)
(* IndexError for every i < 0 and every i >= n; nothing is returned,       *)
(* negative indices do not count from the end, and the tree is unchanged.  *)
(***************************************************************************)
C10_OutOfRangeRejected ==
  [][ (/\ call'.op \in {"get_proof", "create_etc"}
       /\ (call'.index < 0 \/ call'.index >= Len(leaves)))
      => (/\ ret' = Raise("IndexError")
          /\ built' = built /\ leaves' = leaves /\ tree' = tree /\ root' = root) ]_vars

\* get_proof(-1) on a tree of three leaves
C10_Witness ==
  /\ call.op = "get_proof"
  /\ call.index = 0 - 1
  /\ Len(leaves) = 3
  /\ ret.kind = "raise" /\ ret.error = "IndexError"
  /\ ret.proof = <<>> /\ ret.etc = NoEtc


(***************************************************************************)
(* C11  Empty batch rejection: MerkleTree([]) raises ValueError and yields *)
(* no tree and no root, not even the hash of the empty text.               *)
(***************************************************************************)
C11_EmptyBatchRejected ==
  (call.op = "__init__" /\ call.batch = <<>>)
  => (/\ ret = Raise("ValueError")
      /\ ~built
      /\ leaves = <<>> /\ tree = <<>>
      /\ root = "" /\ root # sha256(""))

C11_Witness ==
  /\ call.op = "__init__"
  /\ call.batch = <<>>
  /\ ret.kind = "raise" /\ ret.error = "ValueError"
  /\ ~built

(***************************************************************************)
(* C12  Order sensitivity: two leaf sequences that are reorderings of the  *)
(* same events and differ in at least one position give different roots.   *)
(***************************************************************************)
Count(s, x) == Cardinality({k \in 1 .. Len(s) : s[k] = x})

Reordering(s, t) ==
  /\ Len(s) = Len(t)
  /\ \A x \in LeafInputs \cup NonStrInputs : Count(s, x) = Count(t, x)

C12_OrderSensitivity ==
  (call.op = "__init__" /\ ret.kind = "tree")
  => \A other \in BatchInputs :
       (Reordering(other, call.batch) /\ other # call.batch)
       => init_root(other) # root

\* a batch of four of which another order differs only in the right children
C12_Witness ==
  /\ call.op = "__init__"
  /\ ret.kind = "tree"
  /\ call.batch = <<"a", "b", "a", sha256("a")>>
  /\ Reordering(<<"a", sha256("a"), "a", "b">>, call.batch)
  /\ init_root(<<"a", sha256("a"), "a", "b">>) # root

(***************************************************************************)
(* C13  create_etc(i, timestamp, batch_id) returns a certificate with      *)
(* event_hash = leaves[i], merkle_root = root, merkle_proof = get_proof(i) *)
(* whose verify() / verify_etc is true; verify() equals verify_proof on    *)
(* the certificate's own event_hash, merkle_proof and merkle_root.         *)
(***************************************************************************)
VerifyProofResult(leaf, proof, expected_root) ==
  IF fold_error(leaf, proof, 1) # ""
  THEN Raise(fold_error(leaf, proof, 1))
  ELSE [NoRet EXCEPT !.kind = "bool", !.ok = verify_proof(leaf, proof, expected_root)]

C13_CreateEtcVerifies ==
  /\ (call.op = "create_etc" /\ ret.kind = "etc")
       => (/\ ret.etc.event_hash = At(leaves, call.index)
           /\ ret.etc.merkle_root = root
           /\ ret.etc.merkle_proof = get_proof(tree, call.index)
           /\ ret.etc.timestamp = call.etc.timestamp
           /\ ret.etc.batch_id = call.etc.batch_id
           /\ etc_verify(ret.etc)
           /\ verify_etc(ret.etc))
  /\ (call.op \in {"etc.verify", "verify_etc"})
       => (/\ ret = VerifyProofResult(call.etc.event_hash, call.etc.merkle_proof,
                                      call.etc.merkle_root)
           /\ (\E i \in ValidIndices :
                 /\ call.etc.event_hash = At(leaves, i)
                 /\ call.etc.timestamp \in Timestamps
                 /\ call.etc.batch_id \in BatchIds
                 /\ call.etc = create_etc(leaves, tree, root, i, call.etc.timestamp,
                                          call.etc.batch_id)) => ret.ok = TRUE)

\* the certificate of the second of three leaves, with a batch id, verified
C13_Witness ==
  /\ call.op = "etc.verify"
  /\ Len(leaves) = 3
  /\ call.etc = create_etc(leaves, tree, root, 1, "2026-01-01T00:00:00", "batch_001")
  /\ call.etc.merkle_proof[1][2] = "left"
  /\ ret.ok = TRUE

(***************************************************************************)
(* C16  Binding a certificate with a timestamp that is not a valid instant *)
(* signals a construction error and produces no certificate.               *)
(***************************************************************************)
ValidInstants == {"2026-01-01T00:00:00"}

C16_MalformedTimestampRejected ==
  (call.op = "create_etc" /\ call.etc.timestamp \notin ValidInstants)
  => (ret.kind = "raise" /\ ret.etc = NoEtc)

(***************************************************************************)
(* C14  An Event Trust Certificate is immutable once constructed: after    *)
(* create_etc returns, no operation changes its event_hash, merkle_root,   *)
(* merkle_proof, timestamp or batch_id.                                    *)
(***************************************************************************)
C14_EtcImmutable ==
  [][ held # NoEtc => held' = held ]_vars

(***************************************************************************)
(* C15  Fingerprint avalanche: two AuraEventCertificate records have the   *)
(* same fingerprint() if their seven fields are equal and different ones   *)
(* if any field differs; the record is frozen, so the fingerprint of a     *)
(* given record never changes.                                             *)
(***************************************************************************)
C15_FingerprintAvalanche ==
  /\ [] (cres.op = "fingerprint"
           => \A other \in CertInputs : (fingerprint(other) = cres.text) <=> (other = cert))
  /\ [] (cres.op = "setattr" => (cres.kind = "raise" /\ cres.error = "FrozenInstanceError"))
  /\ [][ cert # NoCert => (cert' = cert /\ fingerprint(cert') = fingerprint(cert)) ]_vars

\* the fingerprint of a record for which another record differs in the drift only
C15_Witness ==
  /\ cres.op = "fingerprint"
  /\ cert.drift = 50
  /\ cres.text = fingerprint(cert)
  /\ [cert EXCEPT !.drift = 0] \in CertInputs
  /\ fingerprint([cert EXCEPT !.drift = 0]) # cres.text

(***************************************************************************)
(* C19  render_certificate returns a rendering in each of the formats      *)
(* 'json', 'text' and 'dict', the text rendering showing the score, drift  *)
(* and status of the certificate, and raises ValueError for any other      *)
(* format name.                                                            *)
(***************************************************************************)
C19_RenderFormats ==
  cres.op = "render"
  => CASE cres.arg = "dict" -> cres.kind = "dict"
       [] cres.arg = "json" -> cres.kind = "str" /\ cres.text = json_dumps_indent(to_dict(cert))
       [] cres.arg = "text" ->
            /\ cres.kind = "str"
            /\ cres.text = text_lines(to_dict(cert), to_dict(cert).ari, fingerprint(cert))
       [] OTHER -> cres.kind = "raise" /\ cres.error = "ValueError"

(***************************************************************************)
(* C18  Kill-switch gate: a calculate call made while the global switch is *)
(* active returns the failure result (score 0.0, status FAIL, a reason     *)
(* that reports the halt) without evaluating the event, whichever          *)
(* calculator is used; a calculate call made while it is not active, also  *)
(* after a deactivate, scores the event normally.                          *)
(***************************************************************************)
C18_KillSwitchGate ==
  kres.op = "calculate"
  => IF ks.active
     THEN /\ kres.dict.keys = {"score", "reason", "status"}
          /\ kres.dict.score = 0
          /\ kres.dict.status = "FAIL"
          /\ kres.dict.reason = "System halted: " \o halt_message(ks)
          /\ kres.evaluated = FALSE
     ELSE /\ kres.evaluated = TRUE
          /\ kres.dict = evaluate(CalcConfigs[kres.calc], EventInputs[kres.event])

\* the switch was activated and deactivated again, and the event scores 0.72
C18_Witness ==
  /\ kres.op = "calculate"
  /\ ~ks.active
  /\ ks.activated_by # "None"
  /\ kres.calc = "calc_1" /\ kres.event = "event_1"
  /\ kres.dict.keys = {"score", "structural", "semantic", "penalty"}
  /\ kres.dict.score = 720

(***************************************************************************)
(* C20  Kill-switch activation is first-writer-wins: the switch starts     *)
(* inactive; activate on an inactive switch returns "activated" and        *)
(* records the caller and reason; activate on an active switch returns     *)
(* "already_active" with the original activator and changes nothing;       *)
(* deactivate on an inactive switch returns "not_active" and changes       *)
(* nothing.                                                                *)
(***************************************************************************)
C20_FirstWriterWins ==
  /\ ~ks.active
  /\ [][ /\ kres'.op = "activate" /\ ~ks.active
           => (/\ kres'.dict.status = "activated"
               /\ kres'.dict.activated_by = kres'.by
               /\ kres'.dict.reason = kres'.reason
               /\ ks'.active
               /\ ks'.activated_by = kres'.by
               /\ ks'.reason = kres'.reason
               /\ ks'.activated_at \in Instants)
         /\ kres'.op = "activate" /\ ks.active
           => (/\ kres'.dict.status = "already_active"
               /\ kres'.dict.activated_by = ks.activated_by
               /\ kres'.dict.activated_at = isoformat(ks.activated_at)
               /\ ks' = ks)
         /\ kres'.op = "deactivate" /\ ~ks.active
           => (/\ kres'.dict.status = "not_active"
               /\ kres'.dict.keys = {"status"}
               /\ ks' = ks) ]_vars

\* a second operator tried to activate the active switch
C20_Witness ==
  /\ kres.op = "activate"
  /\ kres.dict.status = "already_active"
  /\ ks.active
  /\ kres.by = "operator_002" /\ kres.reason = "incident"
  /\ ks.activated_by = "operator_001" /\ ks.reason = "drill"
  /\ kres.dict.activated_by = "operator_001"


(***************************************************************************)
(* C17: a built tree is read-only.  No step of get_root, get_proof or      *)
(* create_etc changes the tree's leaves, levels or root, so the tree stays *)
(* the tree as built from its batch; and whatever the interleaving of the  *)
(* workers' steps, a finished call holds exactly the result of that call   *)
(* run alone on the tree.                                                  *)
(***************************************************************************)
Alone(r) ==
  IF r.op = "get_root" THEN [NoRet EXCEPT !.kind = "str", !.digest = root]
  ELSE IF out_of_range(leaves, r.index) THEN Raise("IndexError")
  ELSE IF r.op = "get_proof"
       THEN [NoRet EXCEPT !.kind = "proof", !.proof = get_proof(tree, r.index)]
       ELSE [NoRet EXCEPT !.kind = "etc",
                          !.etc = create_etc(leaves, tree, root, r.index, r.timestamp,
                                             r.batch_id)]

C17_TreeReadOnly ==
  /\ [](built => /\ leaves = init_leaves(call.batch)
                 /\ tree = init_tree(call.batch)
                 /\ root = init_root(call.batch)
                 /\ \A w \in Workers : wk[w].pc = "done" => wk[w].ret = Alone(wk[w]))
  /\ [][built => leaves' = leaves /\ tree' = tree /\ root' = root]_vars

\* both workers have finished a call on a three-leaf tree while the other was
\* running: one a proof through the self-paired node, one a certificate
C17_Witness ==
  /\ built /\ Len(leaves) = 3
  /\ wk["w1"].pc = "done" /\ wk["w1"].op = "get_proof" /\ wk["w1"].index = 2
  /\ wk["w1"].ret.kind = "proof" /\ Len(wk["w1"].ret.proof) = 2
  /\ wk["w2"].pc = "done" /\ wk["w2"].op = "create_etc"
  /\ wk["w2"].ret.kind = "etc" /\ wk["w2"].ret.etc.merkle_root = root


(***************************************************************************)
(* C21: the root identifies the batch.  A tree just built from a batch has *)
(* a root that no other leaf sequence, of the same or another length,      *)
(* yields; in particular not the batch with its last leaf repeated.        *)
(***************************************************************************)
C21_RootIdentifiesBatch ==
  (call.op = "__init__" /\ ret.kind = "tree")
  => \A other \in RootBatches :
       (other # <<>> /\ other # call.batch) => init_root(other) # root

(***************************************************************************)
(* C21, as amended: the root identifies the batch among the batches of its *)
(* own length.  A tree just built from a batch has a root that no other    *)
(* leaf sequence of the same length yields; the length itself is not       *)
(* bound: a batch of odd length of at least three and that batch with its  *)
(* last leaf repeated have the same root, as the duplication of the        *)
(* unpaired node (lines 93-95) pairs the last leaf with itself.            *)
(***************************************************************************)
C21_RootIdentifiesBatchOfLength ==
  (call.op = "__init__" /\ ret.kind = "tree")
  => /\ \A other \in RootBatches :
          (Len(other) = Len(call.batch) /\ other # call.batch) => init_root(other) # root
     /\ (Len(call.batch) >= 3 /\ Len(call.batch) % 2 = 1)
          => init_root(Append(call.batch, call.batch[Len(call.batch)])) = root

\* a batch of three: its root differs from that of another batch of three and
\* equals that of the batch of four with the last leaf repeated
C21_Witness ==
  /\ call.op = "__init__"
  /\ ret.kind = "tree"
  /\ call.batch = <<"a", "b", "a">>
  /\ init_root(<<"a", "b", "b">>) # root
  /\ init_root(<<"a", "b", "a", "a">>) = root

(***************************************************************************)
(* C22: proofs only validate leaves.  Whenever a verification against the  *)
(* root of the built tree returns true, by verify_proof, by verify_etc or  *)
(* by the certificate's own verify, the digest verified is one of the      *)
(* tree's level-0 leaf digests.                                            *)
(***************************************************************************)
C22_ProofsOnlyValidateLeaves ==
  (/\ built
   /\ IsVerifyCall
   /\ VerifyCall.root = root
   /\ ret.kind = "bool" /\ ret.ok)
  => \E k \in 1 .. Len(leaves) : leaves[k] = VerifyCall.leaf

(***************************************************************************)
(* C22, as amended: a proof validates a node of the tree, at the level its *)
(* length says.  Whenever a verification against the root of the built     *)
(* tree returns true for a proof no longer than the tree is high, the      *)
(* digest verified is a node of the level len(proof) below the root: a     *)
(* level-0 leaf digest when the proof has the full length, an internal     *)
(* node or the root itself when it is shorter.                             *)
(***************************************************************************)
C22_ProofsValidateNodesOfTheirLevel ==
  (/\ built
   /\ IsVerifyCall
   /\ VerifyCall.root = root
   /\ ret.kind = "bool" /\ ret.ok
   /\ Len(VerifyCall.proof) <= Len(tree) - 1)
  => LET level == tree[Len(tree) - Len(VerifyCall.proof)]
     IN  \E j \in 1 .. Len(level) : level[j] = VerifyCall.leaf

\* verify_proof has accepted an internal node below the root with the upper
\* step of a proof, in a tree of three levels
C22_Witness ==
  /\ built /\ Len(tree) = 3
  /\ call.op = "verify_proof" /\ call.root = root
  /\ ret.kind = "bool" /\ ret.ok
  /\ Len(call.proof) = 1
  /\ \E j \in 1 .. Len(tree[2]) : tree[2][j] = call.leaf
  /\ \A k \in 1 .. Len(leaves) : leaves[k] # call.leaf

(***************************************************************************)
(* C23: the kill-switch metadata agrees with the active flag.  Every       *)
(* dictionary get_state() returns reports activated_at, activated_by and   *)
(* reason as set exactly when it reports active as true.                   *)
(***************************************************************************)
C23_MetadataAgreesWithActive ==
  (kres.op = "get_state" /\ kres.kind = "dict")
  => /\ (kres.dict.activated_at # "None") <=> kres.dict.active
     /\ (kres.dict.activated_by # "None") <=> kres.dict.active
     /\ (kres.dict.reason # "None") <=> kres.dict.active

====
